---- MODULE Spec2Model ----
(***************************************************************************)
(* Booking backend: token gate (src/auth.py), flight repository and        *)
(* lifecycle (src/flights/router.py), reservation repository and booking   *)
(* manager (src/bookings/router.py).                                       *)
(*                                                                         *)
(* A Python Optional value is a set: {} is None, {v} is the value v, so    *)
(* that "is not None" and truthiness ("if data.destination:") are two      *)
(* different tests, as they are in the code.                               *)
(* A list returned by an endpoint is modelled by the set of its elements   *)
(* (keys are unique, so no element repeats).                               *)
(***************************************************************************)
EXTENDS Integers, Sequences, FiniteSets, TLC

(* ------------------------------ bounds -------------------------------- *)

MaxFlightIds == 2

MaxTime == 2

MaxReservationIds == 2

MaxThreads == 2

(* -------------------------- Python Optional --------------------------- *)

None == {}

Some(v) == {v}

Value(o) == CHOOSE v \in o : TRUE

\* bool(x) of an Optional[str]: None and "" are both falsy.
TruthyStr(o) == o # None /\ Value(o) # ""

\* bool(x) of an Optional[datetime]: every datetime is truthy.
TruthyDatetime(o) == o # None

Optional(S) == {None} \cup {Some(v) : v \in S}

Put(f, k, v) == [x \in DOMAIN f \cup {k} |-> IF x = k THEN v ELSE f[x]]

(* ------------------------------ domains ------------------------------- *)

FlightIds == {"F" \o ToString(i) : i \in 1..MaxFlightIds}

Destinations == {"", "LIM"}

Departures == {"", "CUZ"}

FlightTypes == {"", "comercial"}

Aircrafts == {"", "A320"}

SeatCounts == {-1, 0, 1}

Datetimes == {1, 2}

FlightStates == {"reserved", "confirmed", "cancelled"}

(* ------------------------------- state -------------------------------- *)

VARIABLES
    fake_users_db,   \* auth.py: username -> principal
    now,             \* datetime.utcnow(), its whole seconds
    fraction,        \* datetime.utcnow(), its fraction of a second, in ticks
    issued,          \* the access tokens the login endpoint has handed out
    flights_db,      \* flights/router.py: flight_id -> Flight
    reservations,    \* bookings/router.py: ReservationRepository.reservations
    response,        \* the answer to the last request handled
    handlers,        \* the requests in progress, one per threadpool thread
    orphans          \* objects a handler still holds that are no longer stored

vars ==
    <<fake_users_db, now, fraction, issued, flights_db, reservations, response,
      handlers, orphans>>

Reply(op, status, detail, data) ==
    [op |-> op, status |-> status, detail |-> detail, data |-> data]

\* The threads of the pool that runs the "def" endpoints.
Threads == 1..MaxThreads

\* What a handler's local variable (flight, reservation) refers to: nothing,
\* the object stored under the request's key, or an object that was stored
\* there when the handler looked it up and has been replaced since.
NoRef == [at |-> "none", slot |-> 0]

DictRef == [at |-> "dict", slot |-> 0]

OrphanRef(n) == [at |-> "orphan", slot |-> n]

IdleHandler ==
    [pc |-> "idle", op |-> "none", arg |-> None, ref |-> NoRef, status |-> 0,
     detail |-> ""]

(* ------------------------------ auth.py ------------------------------- *)

SECRET_KEY == "YOUR_SECRET_KEY"

AdminUsername == "admin@example.com"

OrdinaryUsername == "user@example.com"

UnknownUsername == "ghost@example.com"

\* passlib's salted one-way hash: all that is used of it is that verify
\* accepts exactly the plaintext the hash was made from.
pwd_context_hash(plain) == [bcrypt |-> plain]

verify_password(plain_password, hashed_password) ==
    hashed_password.bcrypt = plain_password

AdminPrincipal ==
    [username |-> AdminUsername,
     hashed_password |-> pwd_context_hash("admin"),
     is_admin |-> TRUE]

OrdinaryPrincipal ==
    [username |-> OrdinaryUsername,
     hashed_password |-> pwd_context_hash("user"),
     is_admin |-> FALSE]

\* A JWT: the key it was signed with, and its claims.
Jwts ==
    [key : {SECRET_KEY, "ANOTHER_KEY"},
     sub : Optional({AdminUsername, OrdinaryUsername, UnknownUsername}),
     exp : 0..MaxTime]

\* The bearer token of a request: None when the Authorization header is missing.
Tokens == Optional(Jwts)

\* jose.jwt.decode: JWTError on a signature made with another key, and
\* (ExpiredSignatureError, a JWTError) when exp < now.
jwt_decode_raises(jwt) == jwt.key # SECRET_KEY \/ jwt.exp < now

NotAuthenticated ==
    [status |-> 401, detail |-> "Not authenticated", user |-> None]

InvalidCredentials ==
    [status |-> 401, detail |-> "Invalid authentication credentials", user |-> None]

NotEnoughPrivileges ==
    [status |-> 403, detail |-> "The user doesn't have enough privileges",
     user |-> None]

get_current_user(token) ==
    IF token = None THEN NotAuthenticated
    ELSE LET jwt == Value(token) IN
         IF jwt_decode_raises(jwt) THEN InvalidCredentials
         ELSE IF jwt.sub = None \/ Value(jwt.sub) \notin DOMAIN fake_users_db
              THEN InvalidCredentials
              ELSE [status |-> 200, detail |-> "",
                    user |-> Some(fake_users_db[Value(jwt.sub)])]

\* admin_required without its test of is_admin.
admin_required_any_user(token) == get_current_user(token)

admin_required(token) ==
    LET current == get_current_user(token) IN
    IF current.status # 200 THEN current
    ELSE IF ~Value(current.user).is_admin THEN NotEnoughPrivileges
         ELSE current

(* ------------------------ flights/router.py --------------------------- *)

Flight(flight_id, destination, departure, flight_type, aircraft, seats, flight_datetime) ==
    [flight_id |-> flight_id, destination |-> destination,
     departure |-> departure, flight_type |-> flight_type,
     aircraft |-> aircraft, seats |-> seats,
     flight_datetime |-> flight_datetime, state |-> "reserved"]

to_dict(self) ==
    [flight_id |-> self.flight_id, destination |-> self.destination,
     departure |-> self.departure, flight_type |-> self.flight_type,
     aircraft |-> self.aircraft, seats |-> self.seats,
     flight_datetime |-> self.flight_datetime, state |-> self.state]

\* Flight.update that also puts the flight back to reserved.
Flight_update_resetting(self, data) ==
    [self EXCEPT !.state = "reserved",
                 !.seats = IF data.seats # None THEN Value(data.seats) ELSE @]

Flight_update(self, data) ==
    [self EXCEPT
       !.destination = IF TruthyStr(data.destination)
                       THEN Value(data.destination) ELSE @,
       !.departure = IF TruthyStr(data.departure)
                     THEN Value(data.departure) ELSE @,
       !.flight_type = IF TruthyStr(data.flight_type)
                       THEN Value(data.flight_type) ELSE @,
       !.aircraft = IF TruthyStr(data.aircraft)
                    THEN Value(data.aircraft) ELSE @,
       !.seats = IF data.seats # None THEN Value(data.seats) ELSE @,
       !.flight_datetime = IF data.flight_datetime # None
                           THEN Value(data.flight_datetime) ELSE @]

\* Flight.confirm that leaves a cancelled flight cancelled.
Flight_confirm_guarded(self) ==
    [self |-> IF self.state = "cancelled" THEN self
              ELSE [self EXCEPT !.state = "confirmed"],
     result |-> "Vuelo confirmado."]

\* Flight.confirm and Flight.cancel: the object after the call, and what
\* the call returns.
Flight_confirm(self) ==
    [self |-> [self EXCEPT !.state = "confirmed"],
     result |-> "Vuelo confirmado."]

\* Flight.cancel without its guard on the confirmed state.
Flight_cancel_unguarded(self) ==
    [self |-> [self EXCEPT !.state = "cancelled"], result |-> "Vuelo cancelado."]

Flight_cancel(self) ==
    IF self.state = "confirmed"
    THEN [self |-> self, result |-> "Cannot cancel a confirmed flight."]
    ELSE [self |-> [self EXCEPT !.state = "cancelled"],
          result |-> "Vuelo cancelado."]

\* The factory handing the request's state on to the flight.
FlightFactory_create_flight_with_state(flight_data) ==
    [Flight(flight_data.flight_id, flight_data.destination,
            flight_data.departure, flight_data.flight_type,
            flight_data.aircraft, flight_data.seats,
            flight_data.flight_datetime)
        EXCEPT !.state = IF flight_data.state # None
                         THEN Value(flight_data.state) ELSE @]

FlightFactory_create_flight(flight_data) ==
    Flight(flight_data.flight_id, flight_data.destination,
           flight_data.departure, flight_data.flight_type,
           flight_data.aircraft, flight_data.seats,
           flight_data.flight_datetime)

\* What a flight handler leaves alone.
FlightFrame ==
    UNCHANGED <<fake_users_db, now, fraction, issued, reservations, handlers,
                orphans>>

\* Depends(admin_required) raised: the handler body does not run.
Denied(op, gate) ==
    /\ response' = Reply(op, gate.status, gate.detail, {})
    /\ UNCHANGED flights_db
    /\ FlightFrame

\* create_flight without its test of "request.flight_id in flights_db".
create_flight_unchecked(token, request) ==
    LET gate == admin_required(token) IN
    IF gate.status # 200 THEN Denied("create_flight", gate)
    ELSE /\ response' = Reply("create_flight", 200,
               "Vuelo " \o request.flight_id \o " creado exitosamente.", {})
         /\ flights_db' = Put(flights_db, request.flight_id,
                              FlightFactory_create_flight(request))
         /\ FlightFrame

create_flight(token, request) ==
    LET gate == admin_required(token) IN
    IF gate.status # 200 THEN Denied("create_flight", gate)
    ELSE IF request.flight_id \in DOMAIN flights_db
         THEN /\ response' = Reply("create_flight", 400,
                    "Vuelo con Id " \o request.flight_id \o " ya existe.", {})
              /\ UNCHANGED flights_db
              /\ FlightFrame
         ELSE /\ response' = Reply("create_flight", 200,
                    "Vuelo " \o request.flight_id \o " creado exitosamente.", {})
              /\ flights_db' = Put(flights_db, request.flight_id,
                                   FlightFactory_create_flight(request))
              /\ FlightFrame

\* The loop body of search_flights: TRUE when no "continue" is taken.
search_keeps(flight, q) ==
    /\ ~(TruthyStr(q.flight_id) /\ flight.flight_id # Value(q.flight_id))
    /\ ~(TruthyStr(q.destination) /\ flight.destination # Value(q.destination))
    /\ ~(TruthyStr(q.departure) /\ flight.departure # Value(q.departure))
    /\ ~(TruthyStr(q.flight_type) /\ flight.flight_type # Value(q.flight_type))
    /\ ~(TruthyStr(q.aircraft) /\ flight.aircraft # Value(q.aircraft))
    /\ ~(q.seats # None /\ flight.seats # Value(q.seats))
    /\ ~(TruthyDatetime(q.flight_datetime)
         /\ flight.flight_datetime # Value(q.flight_datetime))

search_results(q) ==
    {to_dict(flights_db[k]) :
        k \in {id \in DOMAIN flights_db : search_keeps(flights_db[id], q)}}

search_flights(token, q) ==
    LET gate == admin_required(token) IN
    IF gate.status # 200 THEN Denied("search_flights", gate)
    ELSE IF q.seats # None /\ Value(q.seats) < 0      \* Query(None, ge=0)
         THEN /\ response' = Reply("search_flights", 422, "ge=0", {})
              /\ UNCHANGED flights_db
              /\ FlightFrame
         ELSE LET results == search_results(q) IN
              /\ response' = IF results = {}
                             THEN Reply("search_flights", 404,
                                        "Vuelo no encontrado.", {})
                             ELSE Reply("search_flights", 200, "", results)
              /\ UNCHANGED flights_db
              /\ FlightFrame

update_flight(token, request) ==
    LET gate == admin_required(token) IN
    IF gate.status # 200 THEN Denied("update_flight", gate)
    ELSE IF request.flight_id \notin DOMAIN flights_db
         THEN /\ response' = Reply("update_flight", 404,
                                   "Vuelo no encontrado.", {})
              /\ UNCHANGED flights_db
              /\ FlightFrame
         ELSE /\ response' = Reply("update_flight", 200,
                    "Vuelo " \o request.flight_id \o " actualizado exitosamente.",
                    {})
              /\ flights_db' = [flights_db EXCEPT ![request.flight_id] =
                                   Flight_update(@, request)]
              /\ FlightFrame

\* list_flights without dependencies=[Depends(admin_required)].
list_flights_ungated(token) ==
    /\ response' = Reply("list_flights", 200, "",
             {to_dict(flights_db[k]) : k \in DOMAIN flights_db})
    /\ UNCHANGED flights_db
    /\ FlightFrame

list_flights(token) ==
    LET gate == admin_required(token) IN
    IF gate.status # 200 THEN Denied("list_flights", gate)
    ELSE /\ response' = Reply("list_flights", 200, "",
                  {to_dict(flights_db[k]) : k \in DOMAIN flights_db})
         /\ UNCHANGED flights_db
         /\ FlightFrame

confirm_flight(token, flight_id) ==
    LET gate == admin_required(token) IN
    IF gate.status # 200 THEN Denied("confirm_flight", gate)
    ELSE IF flight_id \notin DOMAIN flights_db
         THEN /\ response' = Reply("confirm_flight", 404,
                                   "Vuelo no encontrado.", {})
              /\ UNCHANGED flights_db
              /\ FlightFrame
         ELSE LET call == Flight_confirm(flights_db[flight_id]) IN
              /\ response' = Reply("confirm_flight", 200, call.result, {})
              /\ flights_db' = [flights_db EXCEPT ![flight_id] = call.self]
              /\ FlightFrame

\* cancel_flight that takes the cancelled flight out of the collection.
cancel_flight_deleting(token, flight_id) ==
    /\ response' = Reply("cancel_flight", 200, "Vuelo cancelado.", {})
    /\ flights_db' = [k \in DOMAIN flights_db \ {flight_id} |-> flights_db[k]]
    /\ FlightFrame

cancel_flight(token, flight_id) ==
    LET gate == admin_required(token) IN
    IF gate.status # 200 THEN Denied("cancel_flight", gate)
    ELSE IF flight_id \notin DOMAIN flights_db
         THEN /\ response' = Reply("cancel_flight", 404,
                                   "Vuelo no encontrado.", {})
              /\ UNCHANGED flights_db
              /\ FlightFrame
         ELSE LET call == Flight_cancel(flights_db[flight_id]) IN
              /\ response' = Reply("cancel_flight", 200, call.result, {})
              /\ flights_db' = [flights_db EXCEPT ![flight_id] = call.self]
              /\ FlightFrame

(* ------------------- the flight endpoints, in sequence ----------------- *)

\* A signed, unexpired token of the provisioned administrator, and no token.
AdminToken ==
    Some([key |-> SECRET_KEY, sub |-> Some(AdminUsername), exp |-> MaxTime])

CallerTokens == {None, AdminToken}

\* Request bodies of POST /flights/create: two payloads per flight_id, which
\* differ in every field, each with and without a state value.
PayloadA ==
    [destination |-> "LIM", departure |-> "CUZ", flight_type |-> "comercial",
     aircraft |-> "A320", seats |-> 1, flight_datetime |-> 1]

PayloadB ==
    [destination |-> "", departure |-> "", flight_type |-> "", aircraft |-> "",
     seats |-> -1, flight_datetime |-> 2]

FlightCreate(flight_id, p, state) ==
    [flight_id |-> flight_id, destination |-> p.destination,
     departure |-> p.departure, flight_type |-> p.flight_type,
     aircraft |-> p.aircraft, seats |-> p.seats,
     flight_datetime |-> p.flight_datetime, state |-> state]

SampleCreates ==
    {FlightCreate(id, p, s) :
        id \in FlightIds, p \in {PayloadA, PayloadB},
        s \in {None, Some("confirmed")}}

\* Request bodies of PUT /flights/update: nothing set, and two fields set.
FlightUpdate(flight_id, destination, seats) ==
    [flight_id |-> flight_id, destination |-> destination, departure |-> None,
     flight_type |-> None, aircraft |-> None, seats |-> seats,
     flight_datetime |-> None]

SampleUpdates ==
    {FlightUpdate(id, None, None) : id \in FlightIds}
        \cup {FlightUpdate(id, Some("CUS"), Some(0)) : id \in FlightIds}

\* Query strings of GET /flights/search.
SampleQueries ==
    [flight_id : {None} \cup {Some(id) : id \in FlightIds},
     destination : {None, Some("LIM")},
     departure : {None}, flight_type : {None}, aircraft : {None},
     seats : {None, Some(-1), Some(0)}, flight_datetime : {None}]

CreateFlight == \E t \in CallerTokens, r \in SampleCreates : create_flight(t, r)

SearchFlights == \E t \in CallerTokens, q \in SampleQueries : search_flights(t, q)

UpdateFlight == \E t \in CallerTokens, r \in SampleUpdates : update_flight(t, r)

ListFlights == \E t \in CallerTokens : list_flights(t)

ConfirmFlight == \E t \in CallerTokens, id \in FlightIds : confirm_flight(t, id)

CancelFlight == \E t \in CallerTokens, id \in FlightIds : cancel_flight(t, id)

NextFlights ==
    \/ CreateFlight
    \/ SearchFlights
    \/ UpdateFlight
    \/ ListFlights
    \/ ConfirmFlight
    \/ CancelFlight

(* ------------------------------- Init --------------------------------- *)

Init ==
    /\ fake_users_db = [u \in {AdminUsername} |-> AdminPrincipal]
    /\ now = 0
    /\ fraction = 0
    /\ issued = {}
    /\ flights_db = <<>>
    /\ reservations = <<>>
    /\ response = Reply("start", 0, "", {})
    /\ handlers = [t \in Threads |-> IdleHandler]
    /\ orphans = [n \in Threads |-> None]

SpecFlights == Init /\ [][NextFlights]_vars

(* ------------------- claims on the flight endpoints -------------------- *)

\* C1: cancel never raises on a stored flight: a confirmed flight gets the
\* refusal message and stays confirmed, a reserved flight becomes cancelled;
\* cancel on a flight_id that is not stored answers NotFound (404).
C1_CancelContract ==
    [][response'.op = "cancel_flight" =>
       \A t \in CallerTokens, id \in FlightIds :
        (admin_required(t).status = 200 /\ cancel_flight(t, id)) =>
            IF id \notin DOMAIN flights_db
            THEN response'.status = 404 /\ flights_db' = flights_db
            ELSE /\ response'.status = 200
                 /\ flights_db[id].state = "confirmed" =>
                        /\ response'.detail = "Cannot cancel a confirmed flight."
                        /\ flights_db'[id].state = "confirmed"
                 /\ flights_db[id].state = "reserved" =>
                        flights_db'[id].state = "cancelled"]_vars

\* A cancel was refused on a confirmed flight.
C1_Witness ==
    /\ response.op = "cancel_flight"
    /\ response.status = 200
    /\ response.detail = "Cannot cancel a confirmed flight."
    /\ \E id \in DOMAIN flights_db : flights_db[id].state = "confirmed"

\* The fields a create request gives a flight.
HasFieldsOf(flight, r) ==
    /\ flight.flight_id = r.flight_id
    /\ flight.destination = r.destination
    /\ flight.departure = r.departure
    /\ flight.flight_type = r.flight_type
    /\ flight.aircraft = r.aircraft
    /\ flight.seats = r.seats
    /\ flight.flight_datetime = r.flight_datetime

\* C4: create on a stored flight_id answers Conflict (400) and leaves the
\* collection, the stored flight included, as it was; create on a flight_id
\* that is not stored succeeds and adds that one record and nothing else.
C4_CreateContract ==
    [][response'.op = "create_flight" =>
       \A t \in CallerTokens, r \in SampleCreates :
        (admin_required(t).status = 200 /\ create_flight(t, r)) =>
            IF r.flight_id \in DOMAIN flights_db
            THEN response'.status = 400 /\ flights_db' = flights_db
            ELSE /\ response'.status = 200
                 /\ DOMAIN flights_db' = DOMAIN flights_db \cup {r.flight_id}
                 /\ HasFieldsOf(flights_db'[r.flight_id], r)
                 /\ \A k \in DOMAIN flights_db : flights_db'[k] = flights_db[k]]_vars

\* A create was refused while another flight is stored too.
C4_Witness ==
    /\ response.op = "create_flight"
    /\ response.status = 400
    /\ Cardinality(DOMAIN flights_db) >= 2

(* --------------- the gate in front of the flight endpoints -------------- *)

\* The gate's code does not depend on which principals are provisioned:
\* beside the table of auth.py, one that also holds a non-admin principal.
UserTables ==
    {[u \in {AdminUsername} |-> AdminPrincipal],
     [u \in {AdminUsername, OrdinaryUsername} |->
         IF u = AdminUsername THEN AdminPrincipal ELSE OrdinaryPrincipal]}

InitGate ==
    /\ fake_users_db \in UserTables
    /\ now = 0
    /\ fraction = 0
    /\ issued = {}
    /\ flights_db = <<>>
    /\ reservations = <<>>
    /\ response = Reply("start", 0, "", {})
    /\ handlers = [t \in Threads |-> IdleHandler]
    /\ orphans = [n \in Threads |-> None]

Tick ==
    /\ now < MaxTime
    /\ now' = now + 1
    /\ UNCHANGED <<fake_users_db, fraction, issued, flights_db, reservations,
                   response, handlers, orphans>>

GateFlightId == "F1"

GateCreates == {FlightCreate(GateFlightId, PayloadA, None)}

GateUpdates == {FlightUpdate(GateFlightId, Some("CUS"), Some(0))}

GateQueries ==
    [flight_id : {None, Some(GateFlightId)}, destination : {None},
     departure : {None}, flight_type : {None}, aircraft : {None},
     seats : {None}, flight_datetime : {None}]

GateCreateFlight == \E t \in Tokens, r \in GateCreates : create_flight(t, r)

GateSearchFlights == \E t \in Tokens, q \in GateQueries : search_flights(t, q)

GateUpdateFlight == \E t \in Tokens, r \in GateUpdates : update_flight(t, r)

GateListFlights == \E t \in Tokens : list_flights(t)

GateConfirmFlight == \E t \in Tokens : confirm_flight(t, GateFlightId)

GateCancelFlight == \E t \in Tokens : cancel_flight(t, GateFlightId)

NextGate ==
    \/ Tick
    \/ GateCreateFlight
    \/ GateSearchFlights
    \/ GateUpdateFlight
    \/ GateListFlights
    \/ GateConfirmFlight
    \/ GateCancelFlight

SpecGate == InitGate /\ [][NextGate]_vars

\* The token is missing, signed with another key, expired, or names no
\* known principal.
TokenInvalid(t) ==
    \/ t = None
    \/ Value(t).key # SECRET_KEY
    \/ Value(t).exp < now
    \/ Value(t).sub = None
    \/ Value(Value(t).sub) \notin DOMAIN fake_users_db

PrincipalOf(t) == fake_users_db[Value(Value(t).sub)]

\* C2: the gate gives every token exactly one outcome: Unauthenticated (401)
\* exactly for an invalid token; Forbidden (403) exactly for a valid token
\* of a principal with is_admin false; success, returning the principal,
\* exactly for a valid token of a principal with is_admin true. An invalid
\* token is never answered Forbidden.
C2_GateClassifies ==
    \A t \in Tokens :
        LET gate == admin_required(t) IN
        /\ gate.status \in {200, 401, 403}
        /\ TokenInvalid(t) => gate.status = 401 /\ gate.user = None
        /\ (~TokenInvalid(t) /\ ~PrincipalOf(t).is_admin) =>
               gate.status = 403 /\ gate.user = None
        /\ (~TokenInvalid(t) /\ PrincipalOf(t).is_admin) =>
               gate.status = 200 /\ gate.user = Some(PrincipalOf(t))

\* A request was answered Forbidden.
C2_Witness == response.status = 403

\* The request is denied: the collection is as it was, the answer is
\* Unauthenticated or Forbidden and carries no flight.
NoAccess ==
    /\ flights_db' = flights_db
    /\ response'.status \in {401, 403}
    /\ response'.data = {}

\* C3: a create, search, update, get_all, confirm or cancel request whose
\* token is missing, invalid, expired or not an admin's leaves the flight
\* collection as it was and returns no flight data: a step that is not
\* NoAccess is no step of such a request.
C3_OnlyAdminsReachFlights ==
    [][~NoAccess =>
       \A t \in Tokens :
        (TokenInvalid(t) \/ ~PrincipalOf(t).is_admin) =>
            /\ \A r \in GateCreates : ~create_flight(t, r)
            /\ \A q \in GateQueries : ~search_flights(t, q)
            /\ \A r \in GateUpdates : ~update_flight(t, r)
            /\ ~list_flights(t)
            /\ ~confirm_flight(t, GateFlightId)
            /\ ~cancel_flight(t, GateFlightId)]_vars

\* A get_all request was denied while a flight is stored.
C3_Witness ==
    /\ response.op = "list_flights"
    /\ response.status = 401
    /\ flights_db # <<>>

(* ------------- update and search over every field's values ------------- *)

\* Every create body for one flight_id, and one body for each other id.
FieldsCreates ==
    [flight_id : {GateFlightId}, destination : Destinations,
     departure : Departures, flight_type : FlightTypes, aircraft : Aircrafts,
     seats : SeatCounts, flight_datetime : Datetimes, state : {None}]
        \cup {FlightCreate(id, PayloadA, None) : id \in FlightIds \ {GateFlightId}}

\* Every update body for that flight_id (the other flights keep their fields).
FieldsUpdates ==
    [flight_id : {GateFlightId}, destination : Optional(Destinations),
     departure : Optional(Departures), flight_type : Optional(FlightTypes),
     aircraft : Optional(Aircrafts), seats : Optional(SeatCounts),
     flight_datetime : Optional(Datetimes)]

FieldsQueries ==
    [flight_id : Optional(FlightIds \cup {""}),
     destination : Optional(Destinations), departure : Optional(Departures),
     flight_type : Optional(FlightTypes), aircraft : Optional(Aircrafts),
     seats : Optional(SeatCounts), flight_datetime : Optional(Datetimes)]

FieldsCreateFlight == \E r \in FieldsCreates : create_flight(AdminToken, r)

FieldsUpdateFlight == \E r \in FieldsUpdates : update_flight(AdminToken, r)

FieldsSearchFlights == \E q \in FieldsQueries : search_flights(AdminToken, q)

NextFields ==
    \/ FieldsCreateFlight
    \/ FieldsUpdateFlight
    \/ FieldsSearchFlights

SpecFields == Init /\ [][NextFields]_vars

\* The value a field has after an update, as the claim has it.
Overwritten(old, given) == IF given # None THEN Value(given) ELSE old

\* C5: after a successful update each of destination, departure,
\* flight_type, aircraft, seats and flight_datetime holds the request's value
\* when that value is non-null, whatever the value, and the stored value
\* when it is null; update on a flight_id that is not stored answers
\* NotFound (404).
C5_UpdateOverwritesNonNull ==
    [][response'.op = "update_flight" =>
       \A r \in FieldsUpdates :
        update_flight(AdminToken, r) =>
            IF r.flight_id \notin DOMAIN flights_db
            THEN response'.status = 404 /\ flights_db' = flights_db
            ELSE LET old == flights_db[r.flight_id]
                     new == flights_db'[r.flight_id] IN
                 /\ response'.status = 200
                 /\ new.destination = Overwritten(old.destination, r.destination)
                 /\ new.departure = Overwritten(old.departure, r.departure)
                 /\ new.flight_type = Overwritten(old.flight_type, r.flight_type)
                 /\ new.aircraft = Overwritten(old.aircraft, r.aircraft)
                 /\ new.seats = Overwritten(old.seats, r.seats)
                 /\ new.flight_datetime =
                        Overwritten(old.flight_datetime, r.flight_datetime)]_vars

\* The flight equals the filter value on the field, or no value is supplied.
Passes(value, filter) == filter = None \/ value = Value(filter)

\* The stored flights that equal every supplied filter value.
Matching(q) ==
    {to_dict(flights_db[k]) :
        k \in {id \in DOMAIN flights_db :
                 LET f == flights_db[id] IN
                 /\ Passes(f.flight_id, q.flight_id)
                 /\ Passes(f.destination, q.destination)
                 /\ Passes(f.departure, q.departure)
                 /\ Passes(f.flight_type, q.flight_type)
                 /\ Passes(f.aircraft, q.aircraft)
                 /\ Passes(f.seats, q.seats)
                 /\ Passes(f.flight_datetime, q.flight_datetime)}}

\* C6: search returns exactly the stored flights that equal every supplied
\* (non-null) filter value, answers NotFound (404) exactly when there is
\* none, and never changes the collection. (A negative seats filter is
\* refused by the query validation and is outside the claim.)
C6_SearchReturnsMatching ==
    [][response'.op = "search_flights" =>
       \A q \in FieldsQueries :
        (~(q.seats # None /\ Value(q.seats) < 0)
            /\ search_flights(AdminToken, q)) =>
            /\ flights_db' = flights_db
            /\ (response'.status = 404) <=> (Matching(q) = {})
            /\ Matching(q) # {} =>
                  response'.status = 200 /\ response'.data = Matching(q)]_vars

(* ------------------------ bookings/router.py --------------------------- *)

ReservationIds == 1..MaxReservationIds

\* EmailStr: the request is refused (422) unless passenger_email is an
\* e-mail address.
Emails == {"a@b.com", "not-an-email"}

IsEmailStr(e) == e \in {"a@b.com"}

\* Request bodies of POST /bookings/reservations/: status is any string
\* (default "reserved"), flight_id is not looked up.
Reservations ==
    [id : ReservationIds, passenger_email : Emails, flight_id : {"F1"},
     seat_number : {None, Some("12A")},
     status : {"reserved", "cancelled", "paid"}]

\* A repository method: the HTTPException it raises (status 200 when it
\* returns) and self.reservations after it.
Returned(repo) == [status |-> 200, detail |-> "", reservations |-> repo]

Raised(status, detail, repo) ==
    [status |-> status, detail |-> detail, reservations |-> repo]

add_reservation(repo, reservation) ==
    IF reservation.id \in DOMAIN repo
    THEN Raised(400, "Reservacion ya existente.", repo)
    ELSE Returned(Put(repo, reservation.id, reservation))

get_reservation(repo, reservation_id) ==
    IF reservation_id \in DOMAIN repo THEN Some(repo[reservation_id]) ELSE None

update_reservation(repo, reservation) ==
    IF reservation.id \notin DOMAIN repo
    THEN Raised(404, "Reservacion no encontrada.", repo)
    ELSE Returned(Put(repo, reservation.id, reservation))

list_all(repo) == {repo[k] : k \in DOMAIN repo}

BookingManager_create_reservation(repo, reservation) ==
    add_reservation(repo, reservation)

\* BookingManager.cancel_reservation without "reservation.status = ...".
BookingManager_cancel_reservation_no_status(repo, reservation_id) ==
    LET reservation == get_reservation(repo, reservation_id) IN
    IF reservation # None
    THEN update_reservation(repo, Value(reservation))
    ELSE Raised(404, "Reservacion no encontrada.", repo)

\* get_reservation returns the stored object, so the assignment to its
\* status is already a change of the repository; update_reservation then
\* stores the same object under its id again.
BookingManager_cancel_reservation(repo, reservation_id) ==
    LET reservation == get_reservation(repo, reservation_id) IN
    IF reservation # None
    THEN LET cancelled == [Value(reservation) EXCEPT !.status = "cancelled"]
             mutated == [repo EXCEPT ![reservation_id] = cancelled] IN
         update_reservation(mutated, cancelled)
    ELSE Raised(404, "Reservacion no encontrada.", repo)

BookingManager_list_all_reservations(repo) == list_all(repo)

BookingFrame ==
    UNCHANGED <<fake_users_db, now, fraction, issued, flights_db, handlers,
                orphans>>

\* create_reservation without the "already stored" test of add_reservation.
create_reservation_overwriting(reservation) ==
    /\ response' = Reply("create_reservation", 200, "", {reservation})
    /\ reservations' = Put(reservations, reservation.id, reservation)
    /\ BookingFrame

create_reservation(reservation) ==
    IF ~IsEmailStr(reservation.passenger_email)
    THEN /\ response' = Reply("create_reservation", 422, "EmailStr", {})
         /\ UNCHANGED reservations
         /\ BookingFrame
    ELSE LET call == BookingManager_create_reservation(reservations, reservation) IN
         /\ response' = Reply("create_reservation", call.status, call.detail,
                              IF call.status = 200 THEN {reservation} ELSE {})
         /\ reservations' = call.reservations
         /\ BookingFrame

cancel_reservation(reservation_id) ==
    LET call == BookingManager_cancel_reservation(reservations, reservation_id) IN
    /\ response' = Reply("cancel_reservation", call.status,
                         IF call.status = 200 THEN "Reservacion cancelada."
                         ELSE call.detail, {})
    /\ reservations' = call.reservations
    /\ BookingFrame

list_reservations ==
    /\ response' = Reply("list_reservations", 200, "",
                         BookingManager_list_all_reservations(reservations))
    /\ UNCHANGED reservations
    /\ BookingFrame

CreateReservation == \E r \in Reservations : create_reservation(r)

CancelReservation == \E id \in ReservationIds : cancel_reservation(id)

NextBookings ==
    \/ CreateReservation
    \/ CancelReservation
    \/ list_reservations

SpecBookings == Init /\ [][NextBookings]_vars

\* C9: create on a stored reservation id answers Conflict (400) and leaves
\* the repository, the stored reservation included, as it was; create on an
\* id that is not stored succeeds and stores the reservation under its id.
C9_CreateReservationContract ==
    [][response'.op = "create_reservation" =>
       \A r \in Reservations :
        (IsEmailStr(r.passenger_email) /\ create_reservation(r)) =>
            IF r.id \in DOMAIN reservations
            THEN response'.status = 400 /\ reservations' = reservations
            ELSE /\ response'.status = 200
                 /\ DOMAIN reservations' = DOMAIN reservations \cup {r.id}
                 /\ reservations'[r.id] = r
                 /\ \A k \in DOMAIN reservations :
                        reservations'[k] = reservations[k]]_vars

\* A create was refused as a duplicate while another reservation is stored.
C9_Witness ==
    /\ response.op = "create_reservation"
    /\ response.status = 400
    /\ Cardinality(DOMAIN reservations) >= 2

\* C10: cancel(id) on a stored reservation sets its status to cancelled
\* and changes nothing else; from then on its status stays cancelled and
\* every listAll() returns the stored reservations, it among them; cancel(id)
\* on an id that is not stored answers NotFound (404) and changes nothing.
C10_CancelReservationContract ==
    [][ /\ \A id \in ReservationIds :
            cancel_reservation(id) =>
                IF id \notin DOMAIN reservations
                THEN response'.status = 404 /\ reservations' = reservations
                ELSE /\ response'.status = 200
                     /\ reservations' =
                          [reservations EXCEPT ![id].status = "cancelled"]
        /\ \A id \in DOMAIN reservations :
            reservations[id].status = "cancelled" =>
                /\ id \in DOMAIN reservations'
                /\ reservations'[id].status = "cancelled"
        /\ list_reservations =>
             response'.data = {reservations[k] : k \in DOMAIN reservations}
      ]_vars

\* A cancel succeeded and the reservation is stored as cancelled.
C10_Witness ==
    /\ response.op = "cancel_reservation"
    /\ response.status = 200
    /\ \E id \in DOMAIN reservations : reservations[id].status = "cancelled"

(* ---------------- the handlers as the threadpool runs them -------------- *)
(* The endpoints are plain "def" functions, so the framework runs each     *)
(* request on a thread of its pool and the interpreter may switch threads  *)
(* between any two of a handler's reads and writes of the shared           *)
(* dictionaries and objects. No handler takes a lock.                      *)

FlightOps == {"create_flight", "confirm_flight", "cancel_flight"}

ReservationOps == {"create_reservation", "cancel_reservation"}

\* The handlers whose local variable is the object stored under the key.
FlightHolders(hs, key) ==
    {u \in Threads :
        /\ hs[u].ref = DictRef
        /\ hs[u].op \in FlightOps
        /\ hs[u].arg.flight_id = key}

ReservationHolders(hs, key) ==
    {u \in Threads :
        /\ hs[u].ref = DictRef
        /\ hs[u].op \in ReservationOps
        /\ hs[u].arg.id = key}

FreeSlot(orph) ==
    CHOOSE n \in Threads :
        orph[n] = None /\ \A m \in Threads : orph[m] = None => n <= m

\* The object old stops being stored while the handlers in holders hold it:
\* it lives on as theirs alone.
Displace(hs, orph, holders, old) ==
    IF holders = {} THEN [handlers |-> hs, orphans |-> orph]
    ELSE LET n == FreeSlot(orph) IN
         [handlers |-> [u \in Threads |->
                          IF u \in holders
                          THEN [hs[u] EXCEPT !.ref = OrphanRef(n)] ELSE hs[u]],
          orphans |-> [orph EXCEPT ![n] = Some(old)]]

\* An object no handler holds any more is gone.
Collected(orph, hs) ==
    [n \in Threads |->
        IF \E u \in Threads : hs[u].ref = OrphanRef(n) THEN orph[n] ELSE None]

\* The handler returns, or raises the HTTPException.
Done(h, status, detail) ==
    [h EXCEPT !.pc = "idle", !.ref = NoRef, !.status = status,
              !.detail = detail]

ThreadFrame == UNCHANGED <<fake_users_db, now, fraction, issued, response>>

\* An endpoint without dependencies admits every request.
Admitted == [status |-> 200, detail |-> "", user |-> None]

\* A pool thread takes a request: the dependencies run, then the handler.
Begin(t, op, arg, gate, first) ==
    /\ handlers[t].pc = "idle"
    /\ handlers' = [handlers EXCEPT ![t] =
          IF gate.status # 200
          THEN [pc |-> "idle", op |-> op, arg |-> arg, ref |-> NoRef,
                status |-> gate.status, detail |-> gate.detail]
          ELSE [pc |-> first, op |-> op, arg |-> arg, ref |-> NoRef,
                status |-> 0, detail |-> ""]]
    /\ UNCHANGED <<flights_db, reservations, orphans>>
    /\ ThreadFrame

ThreadFlightCreates == {FlightCreate(GateFlightId, p, None) : p \in {PayloadA, PayloadB}}

ThreadReservations ==
    [id : {1}, passenger_email : {"a@b.com"}, flight_id : {"F1"},
     seat_number : {None, Some("12A")}, status : {"reserved"}]

begin_create_flight(t) ==
    \E token \in CallerTokens, r \in ThreadFlightCreates :
        Begin(t, "create_flight", r, admin_required(token), "create_flight:in")

begin_confirm_flight(t) ==
    \E token \in CallerTokens :
        Begin(t, "confirm_flight", [flight_id |-> GateFlightId],
              admin_required(token), "flight:get")

begin_cancel_flight(t) ==
    \E token \in CallerTokens :
        Begin(t, "cancel_flight", [flight_id |-> GateFlightId],
              admin_required(token), "flight:get")

begin_create_reservation(t) ==
    \E r \in ThreadReservations :
        Begin(t, "create_reservation", r, Admitted, "add_reservation:in")

begin_cancel_reservation(t) ==
    Begin(t, "cancel_reservation", [id |-> 1], Admitted, "cancel_reservation:get")

\* create_flight, "if request.flight_id in flights_db: raise".
create_flight_test(t) ==
    LET h == handlers[t] IN
    /\ h.pc = "create_flight:in"
    /\ handlers' = [handlers EXCEPT ![t] =
          IF h.arg.flight_id \in DOMAIN flights_db
          THEN Done(h, 400, "Vuelo con Id " \o h.arg.flight_id \o " ya existe.")
          ELSE [h EXCEPT !.pc = "create_flight:store"]]
    /\ UNCHANGED <<flights_db, reservations, orphans>>
    /\ ThreadFrame

\* create_flight, "flights_db[request.flight_id] = flight" and the return.
create_flight_store(t) ==
    LET h == handlers[t]
        key == h.arg.flight_id
        moved == IF key \in DOMAIN flights_db
                 THEN Displace(handlers, orphans, FlightHolders(handlers, key),
                               flights_db[key])
                 ELSE [handlers |-> handlers, orphans |-> orphans] IN
    /\ h.pc = "create_flight:store"
    /\ flights_db' = Put(flights_db, key, FlightFactory_create_flight(h.arg))
    /\ handlers' = [moved.handlers EXCEPT ![t] =
          Done(h, 200, "Vuelo " \o key \o " creado exitosamente.")]
    /\ orphans' = moved.orphans
    /\ UNCHANGED reservations
    /\ ThreadFrame

\* confirm_flight and cancel_flight, "flight = flights_db.get(flight_id)"
\* and "if not flight: raise".
flight_get(t) ==
    LET h == handlers[t] IN
    /\ h.pc = "flight:get"
    /\ handlers' = [handlers EXCEPT ![t] =
          IF h.arg.flight_id \notin DOMAIN flights_db
          THEN Done(h, 404, "Vuelo no encontrado.")
          ELSE [h EXCEPT !.ref = DictRef,
                         !.pc = IF h.op = "confirm_flight"
                                THEN "Flight.confirm" ELSE "Flight.cancel:if"]]
    /\ UNCHANGED <<flights_db, reservations, orphans>>
    /\ ThreadFrame

\* The Flight the handler holds.
held_flight(h) ==
    IF h.ref = DictRef THEN flights_db[h.arg.flight_id]
    ELSE Value(orphans[h.ref.slot])

\* An assignment to an attribute of the held Flight, and the return.
flight_assign(t, obj, detail) ==
    LET h == handlers[t]
        hs == [handlers EXCEPT ![t] = Done(h, 200, detail)] IN
    /\ handlers' = hs
    /\ IF h.ref = DictRef
       THEN /\ flights_db' = [flights_db EXCEPT ![h.arg.flight_id] = obj]
            /\ orphans' = orphans
       ELSE /\ flights_db' = flights_db
            /\ orphans' = Collected([orphans EXCEPT ![h.ref.slot] = Some(obj)], hs)
    /\ UNCHANGED reservations
    /\ ThreadFrame

Flight_confirm_step(t) ==
    /\ handlers[t].pc = "Flight.confirm"
    /\ LET call == Flight_confirm(held_flight(handlers[t])) IN
       flight_assign(t, call.self, call.result)

\* Flight.cancel, "if self.state == 'confirmed': return".
Flight_cancel_if(t) ==
    LET h == handlers[t]
        hs == [handlers EXCEPT ![t] =
                 IF held_flight(h).state = "confirmed"
                 THEN Done(h, 200, "Cannot cancel a confirmed flight.")
                 ELSE [h EXCEPT !.pc = "Flight.cancel:state"]] IN
    /\ h.pc = "Flight.cancel:if"
    /\ handlers' = hs
    /\ orphans' = Collected(orphans, hs)
    /\ UNCHANGED <<flights_db, reservations>>
    /\ ThreadFrame

\* Flight.cancel, "self.state = 'cancelled'" and the return.
Flight_cancel_state(t) ==
    /\ handlers[t].pc = "Flight.cancel:state"
    /\ flight_assign(t, [held_flight(handlers[t]) EXCEPT !.state = "cancelled"],
                     "Vuelo cancelado.")

\* add_reservation, "if reservation.id in self.reservations: raise".
add_reservation_test(t) ==
    LET h == handlers[t] IN
    /\ h.pc = "add_reservation:in"
    /\ handlers' = [handlers EXCEPT ![t] =
          IF h.arg.id \in DOMAIN reservations
          THEN Done(h, 400, "Reservacion ya existente.")
          ELSE [h EXCEPT !.pc = "add_reservation:store"]]
    /\ UNCHANGED <<flights_db, reservations, orphans>>
    /\ ThreadFrame

\* add_reservation, "self.reservations[reservation.id] = reservation".
add_reservation_store(t) ==
    LET h == handlers[t]
        key == h.arg.id
        moved == IF key \in DOMAIN reservations
                 THEN Displace(handlers, orphans,
                               ReservationHolders(handlers, key), reservations[key])
                 ELSE [handlers |-> handlers, orphans |-> orphans] IN
    /\ h.pc = "add_reservation:store"
    /\ reservations' = Put(reservations, key, h.arg)
    /\ handlers' = [moved.handlers EXCEPT ![t] = Done(h, 200, "")]
    /\ orphans' = moved.orphans
    /\ UNCHANGED flights_db
    /\ ThreadFrame

\* cancel_reservation, "reservation = self.repository.get_reservation(id)"
\* and "if reservation: ... else: raise".
cancel_reservation_get(t) ==
    LET h == handlers[t] IN
    /\ h.pc = "cancel_reservation:get"
    /\ handlers' = [handlers EXCEPT ![t] =
          IF get_reservation(reservations, h.arg.id) = None
          THEN Done(h, 404, "Reservacion no encontrada.")
          ELSE [h EXCEPT !.ref = DictRef, !.pc = "cancel_reservation:status"]]
    /\ UNCHANGED <<flights_db, reservations, orphans>>
    /\ ThreadFrame

\* The Reservation the handler holds.
held_reservation(h) ==
    IF h.ref = DictRef THEN reservations[h.arg.id]
    ELSE Value(orphans[h.ref.slot])

\* cancel_reservation, "reservation.status = 'cancelled'".
cancel_reservation_status(t) ==
    LET h == handlers[t]
        obj == [held_reservation(h) EXCEPT !.status = "cancelled"] IN
    /\ h.pc = "cancel_reservation:status"
    /\ handlers' = [handlers EXCEPT ![t].pc = "update_reservation:in"]
    /\ IF h.ref = DictRef
       THEN /\ reservations' = [reservations EXCEPT ![h.arg.id] = obj]
            /\ orphans' = orphans
       ELSE /\ reservations' = reservations
            /\ orphans' = [orphans EXCEPT ![h.ref.slot] = Some(obj)]
    /\ UNCHANGED flights_db
    /\ ThreadFrame

\* update_reservation, "if reservation.id not in self.reservations: raise".
update_reservation_test(t) ==
    LET h == handlers[t]
        hs == [handlers EXCEPT ![t] =
                 IF h.arg.id \notin DOMAIN reservations
                 THEN Done(h, 404, "Reservacion no encontrada.")
                 ELSE [h EXCEPT !.pc = "update_reservation:store"]] IN
    /\ h.pc = "update_reservation:in"
    /\ handlers' = hs
    /\ orphans' = Collected(orphans, hs)
    /\ UNCHANGED <<flights_db, reservations>>
    /\ ThreadFrame

\* update_reservation, "self.reservations[reservation.id] = reservation",
\* and the return of the endpoint: the held object is stored under its id,
\* in the place of whatever is stored there.
update_reservation_store(t) ==
    LET h == handlers[t]
        key == h.arg.id
        sharers == {u \in Threads : handlers[u].ref = h.ref}
        rebound == [u \in Threads |->
                      IF u \in sharers
                      THEN [handlers[u] EXCEPT !.ref = DictRef] ELSE handlers[u]]
        moved == Displace(rebound, [orphans EXCEPT ![h.ref.slot] = None],
                          ReservationHolders(handlers, key), reservations[key]) IN
    /\ h.pc = "update_reservation:store"
    /\ IF h.ref = DictRef
       THEN /\ reservations' = reservations
            /\ handlers' = [handlers EXCEPT ![t] =
                               Done(h, 200, "Reservacion cancelada.")]
            /\ orphans' = orphans
       ELSE /\ reservations' = Put(reservations, key, held_reservation(h))
            /\ handlers' = [moved.handlers EXCEPT ![t] =
                               Done(h, 200, "Reservacion cancelada.")]
            /\ orphans' = moved.orphans
    /\ UNCHANGED flights_db
    /\ ThreadFrame

NextThreads ==
    \E t \in Threads :
        \/ begin_create_flight(t)
        \/ begin_confirm_flight(t)
        \/ begin_cancel_flight(t)
        \/ begin_create_reservation(t)
        \/ begin_cancel_reservation(t)
        \/ create_flight_test(t)
        \/ create_flight_store(t)
        \/ flight_get(t)
        \/ Flight_confirm_step(t)
        \/ Flight_cancel_if(t)
        \/ Flight_cancel_state(t)
        \/ add_reservation_test(t)
        \/ add_reservation_store(t)
        \/ cancel_reservation_get(t)
        \/ cancel_reservation_status(t)
        \/ update_reservation_test(t)
        \/ update_reservation_store(t)

SpecThreads == Init /\ [][NextThreads]_vars

\* The handler has answered a request of the endpoint with the status.
Answered(h, op, status) == h.pc = "idle" /\ h.op = op /\ h.status = status

\* C7: of two create requests for the same key (flight_id, or reservation
\* id) that interleave between the existence check and the insert, one
\* succeeds and the other is answered Conflict, and the stored record is
\* that of the request that succeeded: no two creates of one key both
\* succeed, and a create that succeeded finds its record stored.
C7_CreateIsUniquePerKey ==
    /\ \A t, u \in Threads :
        (/\ t # u
         /\ Answered(handlers[t], "create_flight", 200)
         /\ Answered(handlers[u], "create_flight", 200))
            => handlers[t].arg.flight_id # handlers[u].arg.flight_id
    /\ \A t, u \in Threads :
        (/\ t # u
         /\ Answered(handlers[t], "create_reservation", 200)
         /\ Answered(handlers[u], "create_reservation", 200))
            => handlers[t].arg.id # handlers[u].arg.id
    /\ \A t \in Threads :
        Answered(handlers[t], "create_flight", 200) =>
            /\ handlers[t].arg.flight_id \in DOMAIN flights_db
            /\ HasFieldsOf(flights_db[handlers[t].arg.flight_id], handlers[t].arg)

\* C8: a cancel request never moves a flight that a confirm request has
\* set to confirmed to cancelled, however the two requests interleave.
C8_ConfirmedIsNeverCancelled ==
    [][\A id \in DOMAIN flights_db :
        flights_db[id].state = "confirmed" =>
            flights_db'[id].state # "cancelled"]_vars

(* ---------------- auth.py, users/router.py: the login ------------------- *)

\* The clock's resolution: ticks in a second.
TicksPerSecond == 2

\* Tokens handed out in one run.
MaxTokens == 1

ACCESS_TOKEN_EXPIRE_MINUTES == 30

\* timedelta(minutes=m), in ticks.
timedelta_minutes(m) == m * 60 * TicksPerSecond

\* datetime.utcnow(), in ticks.
utcnow == now * TicksPerSecond + fraction

\* jose.jwt.encode turns a datetime claim into whole seconds
\* (timegm(utctimetuple())): the fraction of the second is dropped.
timegm(datetime) == datetime \div TicksPerSecond

Usernames == {AdminUsername, OrdinaryUsername, UnknownUsername}

Passwords == {"admin", "user", "wrong"}

\* authenticate_user that does not verify the password.
authenticate_user_any_password(username, password) ==
    IF username \in DOMAIN fake_users_db
    THEN Some(fake_users_db[username]) ELSE None

\* The value False is None here; a principal (a non-empty dict) is truthy.
authenticate_user(username, password) ==
    LET user == IF username \in DOMAIN fake_users_db
                THEN Some(fake_users_db[username]) ELSE None IN
    IF user = None \/ ~verify_password(password, Value(user).hashed_password)
    THEN None
    ELSE user

\* "expires_delta or timedelta(...)": None and timedelta(0) are both falsy.
create_access_token(data, expires_delta) ==
    LET expire == utcnow + (IF expires_delta # None /\ Value(expires_delta) # 0
                            THEN Value(expires_delta)
                            ELSE timedelta_minutes(ACCESS_TOKEN_EXPIRE_MINUTES)) IN
    [key |-> SECRET_KEY, sub |-> data.sub, exp |-> timegm(expire)]

\* POST /users/token. A token handed out is kept with the time it was made
\* at and the time-to-live it was made with.
login_for_access_token(username, password) ==
    LET user == authenticate_user(username, password) IN
    /\ IF user = None
       THEN /\ response' = Reply("login", 401, "Incorrect username or password", {})
            /\ issued' = issued
       ELSE LET access_token ==
                    create_access_token([sub |-> Some(Value(user).username)], None) IN
            /\ response' = Reply("login", 200, "bearer", {access_token})
            /\ issued' = issued \cup
                  {[jwt |-> access_token, issued_at |-> utcnow,
                    ttl |-> timedelta_minutes(ACCESS_TOKEN_EXPIRE_MINUTES)]}
    /\ UNCHANGED <<fake_users_db, now, fraction, flights_db, reservations,
                   handlers, orphans>>

\* Logins happen in the first MaxTime ticks, MaxTokens of them succeed.
Login ==
    /\ utcnow <= MaxTime
    /\ Cardinality(issued) < MaxTokens
    /\ \E username \in Usernames, password \in Passwords :
          login_for_access_token(username, password)

\* The clock is followed until after the tokens handed out have expired.
ClockEnd ==
    (MaxTime + 2) * TicksPerSecond + timedelta_minutes(ACCESS_TOKEN_EXPIRE_MINUTES)

\* Time passes: a tick, or a minute.
Elapse ==
    /\ \E d \in {1, timedelta_minutes(1)} :
          /\ utcnow + d <= ClockEnd
          /\ now' = (utcnow + d) \div TicksPerSecond
          /\ fraction' = (utcnow + d) % TicksPerSecond
    /\ UNCHANGED <<fake_users_db, issued, flights_db, reservations, response,
                   handlers, orphans>>

\* The same token signed with another key.
Forged(jwt) == [jwt EXCEPT !.key = "ANOTHER_KEY"]

\* The tokens a caller can present: none, one it was handed, a forged one.
PresentedTokens ==
    {None} \cup {Some(i.jwt) : i \in issued} \cup {Some(Forged(i.jwt)) : i \in issued}

TokenListFlights == \E token \in PresentedTokens : list_flights(token)

NextTokens ==
    \/ Login
    \/ Elapse
    \/ TokenListFlights

SpecTokens == InitGate /\ [][NextTokens]_vars

\* C11: a token issued at time t0 with time-to-live T for a known principal
\* is accepted by validation at every time before t0+T and rejected at
\* every time after t0+T; an expired token and a wrongly signed token are
\* rejected with the same Unauthenticated outcome.
C11_TokenLifetime ==
    \A i \in issued :
        /\ utcnow < i.issued_at + i.ttl =>
              get_current_user(Some(i.jwt)).status = 200
        /\ utcnow > i.issued_at + i.ttl =>
              get_current_user(Some(i.jwt)) = InvalidCredentials
        /\ get_current_user(Some(Forged(i.jwt))) = InvalidCredentials

booking_dependencies_admin(token) == admin_required(token)

\* @router.post / @router.get of the booking endpoints: no dependencies=[...],
\* so the request's Authorization header is never read.
booking_dependencies(token) == Admitted

BookingDenied(op, gate) ==
    /\ response' = Reply(op, gate.status, gate.detail, {})
    /\ UNCHANGED reservations
    /\ BookingFrame

\* POST /bookings/reservations/ of a request that carries the token.
post_reservations(token, reservation) ==
    IF booking_dependencies(token).status # 200
    THEN BookingDenied("create_reservation", booking_dependencies(token))
    ELSE create_reservation(reservation)

\* POST /bookings/reservations/{reservation_id}/cancel/.
post_reservations_cancel(token, reservation_id) ==
    IF booking_dependencies(token).status # 200
    THEN BookingDenied("cancel_reservation", booking_dependencies(token))
    ELSE cancel_reservation(reservation_id)

\* GET /bookings/reservations/.
get_reservations(token) ==
    IF booking_dependencies(token).status # 200
    THEN BookingDenied("list_reservations", booking_dependencies(token))
    ELSE list_reservations

\* The tokens the booking routes are called with: none, one signed with
\* another key, one of the administrator that expires at once, and one of
\* the administrator that does not expire.
OpenTokens ==
    {None,
     Some([key |-> "ANOTHER_KEY", sub |-> Some(AdminUsername), exp |-> MaxTime]),
     Some([key |-> SECRET_KEY, sub |-> Some(AdminUsername), exp |-> 0]),
     AdminToken}

\* Request bodies of the open booking routes (the e-mail is an address).
OpenReservations ==
    [id : ReservationIds, passenger_email : {"a@b.com"}, flight_id : {"F1"},
     seat_number : {None}, status : {"reserved"}]

PostReservations ==
    \E token \in OpenTokens, r \in OpenReservations : post_reservations(token, r)

PostReservationsCancel ==
    \E token \in OpenTokens, id \in ReservationIds : post_reservations_cancel(token, id)

GetReservations == \E token \in OpenTokens : get_reservations(token)

NextOpenBookings ==
    \/ PostReservations
    \/ PostReservationsCancel
    \/ GetReservations
    \/ Tick

SpecOpenBookings == InitGate /\ [][NextOpenBookings]_vars

\* C13: the outcome of every reservation endpoint and its effect on the
\* reservation collection do not depend on the request's token: a step a
\* request takes with one token (none, an invalid one, a valid admin's) is
\* the step the same request takes with any other; in particular a create
\* of a new id without a token succeeds.
C13_BookingsIgnoreToken ==
    [][ /\ \A r \in OpenReservations, t \in OpenTokens :
            post_reservations(t, r) =>
                /\ \A t2 \in OpenTokens : post_reservations(t2, r)
                /\ r.id \notin DOMAIN reservations =>
                      response'.status = 200 /\ reservations'[r.id] = r
        /\ \A id \in ReservationIds, t \in OpenTokens :
            post_reservations_cancel(t, id) =>
                \A t2 \in OpenTokens : post_reservations_cancel(t2, id)
        /\ \A t \in OpenTokens :
            get_reservations(t) => \A t2 \in OpenTokens : get_reservations(t2)
      ]_vars

\* A listing was answered with the reservations stored (to a caller whose
\* token, if any, has expired).
C13_Witness ==
    /\ response.op = "list_reservations"
    /\ response.status = 200
    /\ response.data # {}
    /\ now = MaxTime

(* ------------------------- whole operations ---------------------------- *)

\* Every change the update request asks for is in the flight.
AllApplied(flight, r) ==
    /\ r.destination # None => flight.destination = Value(r.destination)
    /\ r.departure # None => flight.departure = Value(r.departure)
    /\ r.flight_type # None => flight.flight_type = Value(r.flight_type)
    /\ r.aircraft # None => flight.aircraft = Value(r.aircraft)
    /\ r.seats # None => flight.seats = Value(r.seats)
    /\ r.flight_datetime # None => flight.flight_datetime = Value(r.flight_datetime)

\* C14: an operation that fails with NotFound (404) or Conflict (400)
\* leaves the flight collection and the reservation collection as they
\* were, and no operation leaves a record with only some of its requested
\* changes applied: after an update the flight has every requested change,
\* or none.
C14_OperationsAreAtomic ==
    [][ /\ response'.status \in {400, 404} =>
             flights_db' = flights_db /\ reservations' = reservations
        /\ response'.op = "update_flight" =>
             \A r \in FieldsUpdates :
               (update_flight(AdminToken, r) /\ r.flight_id \in DOMAIN flights_db) =>
                   \/ AllApplied(flights_db'[r.flight_id], r)
                   \/ flights_db'[r.flight_id] = flights_db[r.flight_id]
      ]_vars

(* ------------------------- the flight lifecycle ------------------------- *)

\* C15: confirm on a stored flight sets its state to confirmed whatever the
\* state was (reserved, confirmed, cancelled) and changes nothing else;
\* confirm on a flight_id that is not stored answers NotFound (404).
C15_ConfirmIsUnconditional ==
    [][response'.op = "confirm_flight" =>
       \A t \in CallerTokens, id \in FlightIds :
        (admin_required(t).status = 200 /\ confirm_flight(t, id)) =>
            IF id \notin DOMAIN flights_db
            THEN response'.status = 404 /\ flights_db' = flights_db
            ELSE /\ response'.status = 200
                 /\ flights_db' = [flights_db EXCEPT ![id].state = "confirmed"]]_vars

\* A confirm succeeded, and every stored flight is confirmed.
C15_Witness ==
    /\ response.op = "confirm_flight"
    /\ response.status = 200
    /\ DOMAIN flights_db = FlightIds
    /\ \A id \in DOMAIN flights_db : flights_db[id].state = "confirmed"

\* C16: once a flight is confirmed it stays confirmed: no create, update,
\* search, list, confirm or cancel request, run one after another, changes
\* a confirmed flight's state or removes the flight.
C16_ConfirmedStaysConfirmed ==
    [][\A id \in DOMAIN flights_db :
        flights_db[id].state = "confirmed" =>
            /\ id \in DOMAIN flights_db'
            /\ flights_db'[id].state = "confirmed"]_vars

\* An update was applied to a flight that is confirmed.
C16_Witness ==
    /\ response.op = "update_flight"
    /\ response.status = 200
    /\ \E id \in DOMAIN flights_db :
          flights_db[id].state = "confirmed" /\ flights_db[id].destination = "CUS"

\* C17: a flight is stored with state reserved by a successful create,
\* whatever state the request carries, and the state of every stored flight
\* is one of reserved, confirmed, cancelled.
C17_CreatedReserved ==
    [][ /\ response'.op = "create_flight" /\ response'.status = 200 =>
             \A t \in CallerTokens, r \in SampleCreates :
                create_flight(t, r) => flights_db'[r.flight_id].state = "reserved"
        /\ \A id \in DOMAIN flights_db' : flights_db'[id].state \in FlightStates
      ]_vars

\* A create succeeded and the new flight is reserved beside a confirmed one.
C17_Witness ==
    /\ response.op = "create_flight"
    /\ response.status = 200
    /\ \E id \in DOMAIN flights_db : flights_db[id].state = "reserved"
    /\ \E id \in DOMAIN flights_db : flights_db[id].state = "confirmed"

(* --------------------------- stored values ------------------------------ *)

\* C18: the status of every stored reservation is reserved or cancelled,
\* and a reservation's status is reserved right after it is created, for
\* every create request the endpoint accepts.
C18_ReservationStatus ==
    /\ \A id \in DOMAIN reservations :
          reservations[id].status \in {"reserved", "cancelled"}
    /\ (response.op = "create_reservation" /\ response.status = 200) =>
          \A r \in response.data : reservations[r.id].status = "reserved"

\* C19: every stored flight has seats >= 0: no create or update request the
\* flight endpoints accept stores a negative seat count.
C19_SeatsNonNegative ==
    \A id \in DOMAIN flights_db : flights_db[id].seats >= 0

(* ---------------- flights and bookings, in one sequence ----------------- *)

\* The administrator's requests to the flight endpoints, and the requests
\* to the booking endpoints, handled one after another.
SystemCreates == {FlightCreate(id, PayloadA, None) : id \in FlightIds}

SystemQueries ==
    [flight_id : {None}, destination : {None, Some("LIM")}, departure : {None},
     flight_type : {None}, aircraft : {None}, seats : {None},
     flight_datetime : {None}]

SystemCreateFlight == \E r \in SystemCreates : create_flight(AdminToken, r)

SystemSearchFlights == \E q \in SystemQueries : search_flights(AdminToken, q)

SystemUpdateFlight == \E r \in SampleUpdates : update_flight(AdminToken, r)

SystemListFlights == list_flights(AdminToken)

SystemConfirmFlight == \E id \in FlightIds : confirm_flight(AdminToken, id)

SystemCancelFlight == \E id \in FlightIds : cancel_flight(AdminToken, id)

SystemCreateReservation == \E r \in OpenReservations : create_reservation(r)

Next ==
    \/ SystemCreateFlight
    \/ SystemSearchFlights
    \/ SystemUpdateFlight
    \/ SystemListFlights
    \/ SystemConfirmFlight
    \/ SystemCancelFlight
    \/ SystemCreateReservation
    \/ CancelReservation
    \/ list_reservations

Spec == Init /\ [][Next]_vars

\* C20: each flight is stored under the key equal to its flight_id and each
\* reservation under the key equal to its id; a flight update changes
\* neither flight_id nor state of any flight, confirm and cancel change
\* nothing but the state, and no operation removes a stored key.
C20_KeysAndFrames ==
    [][ /\ \A id \in DOMAIN flights_db' : flights_db'[id].flight_id = id
        /\ \A id \in DOMAIN reservations' : reservations'[id].id = id
        /\ DOMAIN flights_db \subseteq DOMAIN flights_db'
        /\ DOMAIN reservations \subseteq DOMAIN reservations'
        /\ response'.op = "update_flight" =>
              \A id \in DOMAIN flights_db \cap DOMAIN flights_db' :
                  /\ flights_db'[id].flight_id = flights_db[id].flight_id
                  /\ flights_db'[id].state = flights_db[id].state
        /\ response'.op \in {"confirm_flight", "cancel_flight"} =>
              \A id \in DOMAIN flights_db \cap DOMAIN flights_db' :
                  [flights_db'[id] EXCEPT !.state = flights_db[id].state] =
                      flights_db[id]
      ]_vars

\* A cancel went through on a flight that an update had changed, with a
\* reservation stored.
C20_Witness ==
    /\ response.op = "cancel_flight"
    /\ response.status = 200
    /\ \E id \in DOMAIN flights_db :
          flights_db[id].state = "cancelled" /\ flights_db[id].destination = "CUS"
    /\ DOMAIN reservations # {}

====
